---- MODULE Spec2Model ----
(***************************************************************************)
(* deno-npm-sync: synchronisation of the versions embedded in the imports  *)
(* of deno.json with the ranges declared in package.json.                  *)
(*                                                                         *)
(* Strings of the program are sequences of one-character strings, so that  *)
(* the regular expressions, split, slice, join and replace of the source   *)
(* are computed character by character.                                    *)
(***************************************************************************)
EXTENDS Naturals, Sequences, FiniteSets, TLC

VARIABLES
  pkgExists,         \* fs.existsSync(pkgPath)
  denoExists,        \* fs.existsSync(denoPath)
  pkgFile,           \* parsed content of package.json
  denoFile,          \* the imports member of deno.json on disk, in text order
  workspace,         \* package manager and pnpm-workspace.yaml of the workspace
  versionPrecision,  \* options.versionPrecision
  pc,                \* "idle" | "loop" | "done" | "failed"
  deno,              \* in-memory deno.imports of the running call
  idx,               \* position of the for-of loop over Object.entries
  updates,           \* the updates array of the running call
  hasUpdates,        \* the hasUpdates flag of the running call
  runs,              \* number of calls that returned or threw
  writes,            \* number of fs.writeFileSync calls of the running call
  startFile,         \* deno.json imports as they were when the call started
  error,             \* message of the Error thrown, "" when none
  silent,            \* options.silent
  log,               \* lines the running call passed to console.log
  call,              \* the last call of a catalog-resolver function
  answer,            \* what that call returned
  consulted,         \* what that call read: "detect", "yaml", "fs"
  tree,              \* lengths of the paths that hold pnpm-workspace.yaml
  pending,           \* the calls of resolveVersion that have not returned
  seen,              \* what the last call detected and read, if resolveVersion
  objectStatics      \* the later static methods of Object the runtime defines

vars == <<pkgExists, denoExists, pkgFile, denoFile, workspace, versionPrecision,
          pc, deno, idx, updates, hasUpdates, runs, writes, startFile, error,
          silent, log, call, answer, consulted, tree, pending, seen,
          objectStatics>>

\* The variables of the calls of the catalog resolver.
resolverVars ==
  <<call, answer, consulted, tree, pending, seen, objectStatics>>

\* The variables of the calls of syncDenoNpmDependencies.
syncVars == <<pkgExists, denoExists, pkgFile, denoFile, versionPrecision, pc,
              deno, idx, updates, hasUpdates, runs, writes, startFile, error,
              silent, log>>

-----------------------------------------------------------------------------
(* Bounds of the model *)

MaxEntries == 2

MaxRuns == 2

-----------------------------------------------------------------------------
(* Program constants *)

MAJOR_MINOR_PRECISION == 2

-----------------------------------------------------------------------------
(* Characters and strings *)

Digits == {"0", "1", "2", "3", "4", "5", "6", "7", "8", "9"}

LineTerminators == {"\n", "\r"}

\* The characters String.prototype.trim removes, as far as a string of this
\* module can hold them: space, tab, line feed, carriage return, form feed,
\* vertical tab, U+00A0, U+1680 and U+FEFF.  (The remaining ones, U+2000 to
\* U+200A, U+2028, U+2029, U+202F, U+205F and U+3000, cannot be written here.)
WhiteSpace ==
  {" ", "\t", "\n", "\r", "\f", "", " ", " ", "﻿"}

Min(a, b) == IF a <= b THEN a ELSE b

\* Least position i >= from with s[i] \in C, 0 when there is none.
IndexOf(s, C, from) ==
  LET I == {i \in from..Len(s) : s[i] \in C}
  IN  IF I = {} THEN 0 ELSE CHOOSE i \in I : \A j \in I : i <= j

StartsWith(s, p) == Len(s) >= Len(p) /\ SubSeq(s, 1, Len(p)) = p

RECURSIVE Split(_, _)
Split(s, c) ==
  LET i == IndexOf(s, {c}, 1)
  IN  IF i = 0 THEN <<s>>
      ELSE <<SubSeq(s, 1, i - 1)>> \o Split(SubSeq(s, i + 1, Len(s)), c)

RECURSIVE Join(_, _)
Join(segs, c) ==
  IF Len(segs) = 0 THEN <<>>
  ELSE IF Len(segs) = 1 THEN segs[1]
  ELSE segs[1] \o <<c>> \o Join(Tail(segs), c)

\* Array.prototype.slice(0, n) for n >= 0
Slice(segs, n) == SubSeq(segs, 1, Min(n, Len(segs)))

\* String.prototype.replace(/^\D*/u, '')
StripLeadingNonDigits(s) ==
  LET i == IndexOf(s, Digits, 1)
  IN  IF i = 0 THEN <<>> ELSE SubSeq(s, i, Len(s))

\* s matches \d+(?:\.\d+)* as a whole
IsNumericVersion(s) ==
  LET segs == Split(s, ".")
  IN  \A k \in 1..Len(segs) :
        /\ Len(segs[k]) > 0
        /\ \A j \in 1..Len(segs[k]) : segs[k][j] \in Digits

-----------------------------------------------------------------------------
(* main.ts: version precision *)

detectVersionPrecision(version) == Len(Split(version, "."))

formatVersion(version, precision) ==
  Join(Slice(Split(version, "."), precision), ".")

-----------------------------------------------------------------------------
(* main.ts: the two specifier patterns of processImport *)

NoMatch == [matched |-> FALSE, name |-> <<>>, version |-> <<>>, subpath |-> <<>>]

\* @(?<version>\d+(?:\.\d+)*)(?<subpath>\/.*)?$ applied to what follows the
\* "@" that ends the name.  The version holds no "/", so it ends at the first
\* "/" or at the end of the string; a subpath that did not take part in the
\* match is the empty string, as `subpath ?? ''` makes it.
MatchVersionAndSubpath(name, rest) ==
  LET slash   == IndexOf(rest, {"/"}, 1)
      version == IF slash = 0 THEN rest ELSE SubSeq(rest, 1, slash - 1)
      subpath == IF slash = 0 THEN <<>> ELSE SubSeq(rest, slash, Len(rest))
  IN  IF /\ IsNumericVersion(version)
         /\ \A j \in 1..Len(subpath) : subpath[j] \notin LineTerminators
      THEN [matched |-> TRUE, name |-> name, version |-> version,
            subpath |-> subpath]
      ELSE NoMatch

\* /^npm:(?<name>[^@]+)@(?<version>\d+(?:\.\d+)*)(?<subpath>\/.*)?$/u
npmPattern(s) ==
  LET body == SubSeq(s, 5, Len(s))
      at   == IndexOf(body, {"@"}, 1)
  IN  IF StartsWith(s, <<"n", "p", "m", ":">>) /\ at >= 2
      THEN MatchVersionAndSubpath(SubSeq(body, 1, at - 1),
                                  SubSeq(body, at + 1, Len(body)))
      ELSE NoMatch

\* /^jsr:(?<name>@[^/@]+\/[^@/]+)@(?<version>\d+(?:\.\d+)*)(?<subpath>\/.*)?$/u
jsrPattern(s) ==
  LET body  == SubSeq(s, 5, Len(s))
      slash == IndexOf(body, {"/", "@"}, 2)
      at    == IF slash = 0 THEN 0 ELSE IndexOf(body, {"/", "@"}, slash + 1)
  IN  IF /\ StartsWith(s, <<"j", "s", "r", ":">>)
         /\ Len(body) >= 1 /\ body[1] = "@"
         /\ slash >= 3 /\ body[slash] = "/"
         /\ at >= slash + 2 /\ body[at] = "@"
      THEN MatchVersionAndSubpath(SubSeq(body, 1, at - 1),
                                  SubSeq(body, at + 1, Len(body)))
      ELSE NoMatch

RegistryPrefix(registry) ==
  IF registry = "npm" THEN <<"n", "p", "m", ":">> ELSE <<"j", "s", "r", ":">>

-----------------------------------------------------------------------------
(* main.ts: processImport *)

\* Names every object made by JSON.parse inherits from Object.prototype: a
\* lookup of one of them that is not an own key yields a value that is neither
\* nullish nor a string.
ObjectPrototypeKeys ==
  {<<"c", "o", "n", "s", "t", "r", "u", "c", "t", "o", "r">>,
   <<"_", "_", "p", "r", "o", "t", "o", "_", "_">>,
   <<"h", "a", "s", "O", "w", "n", "P", "r", "o", "p", "e", "r", "t", "y">>,
   <<"i", "s", "P", "r", "o", "t", "o", "t", "y", "p", "e", "O", "f">>,
   <<"p", "r", "o", "p", "e", "r", "t", "y", "I", "s", "E", "n", "u", "m", "e", "r", "a", "b", "l", "e">>,
   <<"t", "o", "L", "o", "c", "a", "l", "e", "S", "t", "r", "i", "n", "g">>,
   <<"t", "o", "S", "t", "r", "i", "n", "g">>,
   <<"v", "a", "l", "u", "e", "O", "f">>,
   <<"_", "_", "d", "e", "f", "i", "n", "e", "G", "e", "t", "t", "e", "r", "_", "_">>,
   <<"_", "_", "d", "e", "f", "i", "n", "e", "S", "e", "t", "t", "e", "r", "_", "_">>,
   <<"_", "_", "l", "o", "o", "k", "u", "p", "G", "e", "t", "t", "e", "r", "_", "_">>,
   <<"_", "_", "l", "o", "o", "k", "u", "p", "S", "e", "t", "t", "e", "r", "_", "_">>}

\* pkg[section]?.[name]: "undefined" when the section is absent or the name is
\* neither an own nor an inherited key, "string" for a declared range,
\* "inherited" for a member of Object.prototype.
GetProperty(pkg, section, name) ==
  IF section \notin pkg.sections
  THEN [kind |-> "undefined", value |-> <<>>]
  ELSE IF name \in DOMAIN pkg[section]
  THEN [kind |-> "string", value |-> pkg[section][name]]
  ELSE IF name \in ObjectPrototypeKeys
  THEN [kind |-> "inherited", value |-> <<>>]
  ELSE [kind |-> "undefined", value |-> <<>>]

\* x?.replace(/^\D*/u, ''): undefined for undefined, the stripped text for a
\* string, a TypeError (replace is not a function) for anything else.
OptionalReplace(x) ==
  IF x.kind = "undefined"
  THEN [defined |-> FALSE, throws |-> FALSE, value |-> <<>>]
  ELSE IF x.kind = "string"
  THEN [defined |-> TRUE, throws |-> FALSE,
        value |-> StripLeadingNonDigits(x.value)]
  ELSE [defined |-> FALSE, throws |-> TRUE, value |-> <<>>]

\* a ?? b: b is evaluated only when a is undefined; a TypeError raised while
\* evaluating a propagates.
NullishCoalesce(a, b) == IF a.defined \/ a.throws THEN a ELSE b

\* Variant: the dependencies section is consulted before devDependencies.
pkgVersionOf_dependenciesFirst(pkg, name) ==
  LET dep == OptionalReplace(GetProperty(pkg, "dependencies", name))
      dev == OptionalReplace(GetProperty(pkg, "devDependencies", name))
  IN  IF dep.defined \/ dep.throws THEN dep ELSE dev

\* Variant: a package declared in neither section has the empty candidate.
pkgVersionOf_undeclaredIsEmpty(pkg, name) ==
  LET dev == OptionalReplace(GetProperty(pkg, "devDependencies", name))
      dep == OptionalReplace(GetProperty(pkg, "dependencies", name))
      r   == IF dev.defined \/ dev.throws THEN dev ELSE dep
  IN  IF r.defined \/ r.throws THEN r
      ELSE [defined |-> TRUE, throws |-> FALSE, value |-> <<>>]

\* pkg.devDependencies?.[name]?.replace(/^\D*/u, '') ??
\* pkg.dependencies?.[name]?.replace(/^\D*/u, '')
\* A section is a function from the declared names to their ranges; the right
\* operand of ?? is evaluated only when the left one is undefined.
pkgVersionOf(pkg, name) ==
  NullishCoalesce(OptionalReplace(GetProperty(pkg, "devDependencies", name)),
                  OptionalReplace(GetProperty(pkg, "dependencies", name)))

\* Variant: auto takes the precision of the candidate, not of the embedded
\* version.
finalVersionOf_autoFromCandidate(pkgVersion, version, precision) ==
  IF precision = "major" THEN Split(pkgVersion, ".")[1]
  ELSE IF precision = "minor"
  THEN formatVersion(pkgVersion, MAJOR_MINOR_PRECISION)
  ELSE IF precision = "full" THEN pkgVersion
  ELSE formatVersion(pkgVersion, detectVersionPrecision(pkgVersion))

\* The if-chain of processImport that chooses finalVersion.
finalVersionOf(pkgVersion, version, precision) ==
  IF precision = "major" THEN Split(pkgVersion, ".")[1]
  ELSE IF precision = "minor"
  THEN formatVersion(pkgVersion, MAJOR_MINOR_PRECISION)
  ELSE IF precision = "full" THEN pkgVersion
  ELSE formatVersion(pkgVersion, detectVersionPrecision(version))

NoResult ==
  [isNull |-> TRUE, throws |-> FALSE, newImport |-> <<>>, name |-> <<>>, oldVersion |-> <<>>,
   newVersion |-> <<>>]

\* The call of processImport did not return: a TypeError propagates.
Thrown ==
  [isNull |-> TRUE, throws |-> TRUE, newImport |-> <<>>, name |-> <<>>,
   oldVersion |-> <<>>, newVersion |-> <<>>]

\* Variant: the subpath is not carried over to the new specifier.
processImport_dropsSubpath(denoImport, registry, pkg, precision) ==
  LET m  == IF registry = "npm" THEN npmPattern(denoImport)
            ELSE jsrPattern(denoImport)
      pv == pkgVersionOf(pkg, m.name)
      finalVersion == finalVersionOf(pv.value, m.version, precision)
  IN  IF ~m.matched THEN NoResult
      ELSE IF pv.throws THEN Thrown
      ELSE IF ~pv.defined \/ pv.value = m.version THEN NoResult
      ELSE IF finalVersion = m.version THEN NoResult
      ELSE [isNull |-> FALSE, throws |-> FALSE,
            newImport |-> RegistryPrefix(registry) \o m.name \o <<"@">>
                          \o finalVersion,
            name |-> m.name, oldVersion |-> m.version,
            newVersion |-> finalVersion]

\* Variant: no early return when the candidate is the embedded version.
processImport_noExactCheck(denoImport, registry, pkg, precision) ==
  LET m  == IF registry = "npm" THEN npmPattern(denoImport)
            ELSE jsrPattern(denoImport)
      pv == pkgVersionOf(pkg, m.name)
      finalVersion == finalVersionOf(pv.value, m.version, precision)
  IN  IF ~m.matched THEN NoResult
      ELSE IF pv.throws THEN Thrown
      ELSE IF ~pv.defined THEN NoResult
      ELSE IF finalVersion = m.version THEN NoResult
      ELSE [isNull |-> FALSE, throws |-> FALSE,
            newImport |-> RegistryPrefix(registry) \o m.name \o <<"@">>
                          \o finalVersion \o m.subpath,
            name |-> m.name, oldVersion |-> m.version,
            newVersion |-> finalVersion]

\* Variant: the new specifier is always written in the npm dialect.
processImport_alwaysNpm(denoImport, registry, pkg, precision) ==
  LET m  == IF registry = "npm" THEN npmPattern(denoImport)
            ELSE jsrPattern(denoImport)
      pv == pkgVersionOf(pkg, m.name)
      finalVersion == finalVersionOf(pv.value, m.version, precision)
  IN  IF ~m.matched THEN NoResult
      ELSE IF pv.throws THEN Thrown
      ELSE IF ~pv.defined \/ pv.value = m.version THEN NoResult
      ELSE IF finalVersion = m.version THEN NoResult
      ELSE [isNull |-> FALSE, throws |-> FALSE,
            newImport |-> RegistryPrefix("npm") \o m.name \o <<"@">>
                          \o finalVersion \o m.subpath,
            name |-> m.name, oldVersion |-> m.version,
            newVersion |-> finalVersion]

\* Variant: a finalVersion that is the embedded version is reported as a
\* change too.
ResultWith_noSameCheck(registry, m, finalVersion) ==
  [isNull |-> FALSE, throws |-> FALSE,
   newImport |-> RegistryPrefix(registry) \o m.name \o <<"@">>
                 \o finalVersion \o m.subpath,
   name |-> m.name, oldVersion |-> m.version, newVersion |-> finalVersion]

\* processImport from the choice of finalVersion on: null when it is the
\* embedded version, else the new specifier and the record of the change.
ResultWith(registry, m, finalVersion) ==
  IF finalVersion = m.version THEN NoResult
  ELSE [isNull |-> FALSE, throws |-> FALSE,
        newImport |-> RegistryPrefix(registry) \o m.name \o <<"@">>
                      \o finalVersion \o m.subpath,
        name |-> m.name, oldVersion |-> m.version,
        newVersion |-> finalVersion]

\* processImport from the lookup of pkgVersion on: null when the package is
\* not declared or its candidate is the embedded version.
ResultFor(registry, m, pv, precision) ==
  IF pv.throws THEN Thrown
  ELSE IF ~pv.defined \/ pv.value = m.version THEN NoResult
  ELSE ResultWith(registry, m, finalVersionOf(pv.value, m.version, precision))

\* processImport from the match on: null when the pattern did not match.
ResultOfMatch(registry, m, pkg, precision) ==
  IF ~m.matched THEN NoResult
  ELSE ResultFor(registry, m, pkgVersionOf(pkg, m.name), precision)

processImport(denoImport, registry, pkg, precision) ==
  ResultOfMatch(registry,
                IF registry = "npm" THEN npmPattern(denoImport)
                ELSE jsrPattern(denoImport),
                pkg, precision)

\* The npm attempt when it threw or returned a result (the loop continues
\* with the next entry), else the jsr attempt.
FirstResult(npmResult, jsrResult) ==
  IF npmResult.throws \/ ~npmResult.isNull THEN npmResult ELSE jsrResult

\* Variant: a range operator in the specifier is ignored.
processEntry_ignoresRangeOperator(entry, pkg, precision) ==
  LET bare      == SelectSeq(entry.value, LAMBDA c : c \notin {"^", "~"})
      npmResult == processImport(bare, "npm", pkg, precision)
      jsrResult == processImport(bare, "jsr", pkg, precision)
  IN  IF ~entry.isString THEN NoResult
      ELSE IF npmResult.throws \/ ~npmResult.isNull THEN npmResult
      ELSE jsrResult

\* The body of the for-of loop for one entry: npm first, jsr when the npm
\* attempt returned null; a value that is not a string is skipped.
processEntry(entry, pkg, precision) ==
  IF ~entry.isString THEN NoResult
  ELSE FirstResult(processImport(entry.value, "npm", pkg, precision),
                   processImport(entry.value, "jsr", pkg, precision))

-----------------------------------------------------------------------------
(* catalog-resolver: pnpm catalog references *)

CatalogMarker == <<"c", "a", "t", "a", "l", "o", "g", ":">>

DefaultCatalog == <<"d", "e", "f", "a", "u", "l", "t">>

NullString ==
  [isNull |-> TRUE, isString |-> FALSE, throws |-> FALSE, value |-> <<>>]

Some(s) ==
  [isNull |-> FALSE, isString |-> TRUE, throws |-> FALSE, value |-> s]

\* A value that is neither null nor a string: a function, an object, a
\* number.
NotAString ==
  [isNull |-> FALSE, isString |-> FALSE, throws |-> FALSE, value |-> <<>>]

\* No value: the call threw a TypeError.
ThrownTypeError ==
  [isNull |-> FALSE, isString |-> FALSE, throws |-> TRUE, value |-> <<>>]

\* String.prototype.trim
RECURSIVE Trim(_)
Trim(s) ==
  IF Len(s) = 0 THEN s
  ELSE IF s[1] \in WhiteSpace THEN Trim(Tail(s))
  ELSE IF s[Len(s)] \in WhiteSpace THEN Trim(SubSeq(s, 1, Len(s) - 1))
  ELSE s

\* Variant: the text after the marker is not trimmed.
parseCatalogReference_noTrim(reference) ==
  LET catalogName == SubSeq(reference, Len(CatalogMarker) + 1, Len(reference))
  IN  IF ~StartsWith(reference, CatalogMarker) THEN NullString
      ELSE IF catalogName = <<>> THEN Some(DefaultCatalog)
      ELSE Some(catalogName)

\* { catalogName } or null
parseCatalogReference(reference) ==
  LET catalogName == Trim(SubSeq(reference, Len(CatalogMarker) + 1,
                                 Len(reference)))
  IN  IF ~StartsWith(reference, CatalogMarker) THEN NullString
      ELSE IF catalogName = <<>> THEN Some(DefaultCatalog)
      ELSE Some(catalogName)

\* The parsed document, or null when the file is absent or does not parse.
\* members are the keys catalog / catalogs the document has.
readPnpmWorkspaceYaml(ws) ==
  IF ~ws.yamlExists \/ ~ws.yamlParses
  THEN [isNull |-> TRUE, members |-> {}, catalog |-> <<>>, catalogs |-> <<>>]
  ELSE [isNull |-> FALSE, members |-> ws.members, catalog |-> ws.catalog,
        catalogs |-> ws.catalogs]

\* map?.[packageName] ?? null for a mapping the yaml parser built, a plain
\* object: a name that is not an own key and that Object.prototype supplies
\* yields that member.
CatalogLookup(present, map, packageName) ==
  IF ~present THEN NullString
  ELSE IF packageName \in DOMAIN map THEN Some(map[packageName])
  ELSE IF packageName \in ObjectPrototypeKeys THEN NotAString
  ELSE NullString

\* "__proto__"
ProtoKey == <<"_", "_", "p", "r", "o", "t", "o", "_", "_">>

\* "name"
NameKey == <<"n", "a", "m", "e">>

\* Properties every function has or inherits from Function.prototype, besides
\* its name and those of Object.prototype.
FunctionPrototypeKeys ==
  {<<"a", "p", "p", "l", "y">>,
   <<"b", "i", "n", "d">>,
   <<"c", "a", "l", "l">>,
   <<"l", "e", "n", "g", "t", "h">>}

\* The accessors of Function.prototype that throw a TypeError when read on a
\* built-in function.
RestrictedFunctionKeys == {<<"c", "a", "l", "l", "e", "r">>,
                           <<"a", "r", "g", "u", "m", "e", "n", "t", "s">>}

\* "groupBy"
GroupBy == <<"g", "r", "o", "u", "p", "B", "y">>

\* "hasOwn"
HasOwn == <<"h", "a", "s", "O", "w", "n">>

\* The static methods Object has had since ECMAScript 5, and its prototype
\* property: every runtime that can run the program defines them.
BaseObjectStatics ==
  {<<"p", "r", "o", "t", "o", "t", "y", "p", "e">>,
   <<"c", "r", "e", "a", "t", "e">>,
   <<"d", "e", "f", "i", "n", "e", "P", "r", "o", "p", "e", "r", "t", "i", "e", "s">>,
   <<"d", "e", "f", "i", "n", "e", "P", "r", "o", "p", "e", "r", "t", "y">>,
   <<"f", "r", "e", "e", "z", "e">>,
   <<"g", "e", "t", "O", "w", "n", "P", "r", "o", "p", "e", "r", "t", "y", "D", "e", "s", "c", "r", "i", "p", "t", "o", "r">>,
   <<"g", "e", "t", "O", "w", "n", "P", "r", "o", "p", "e", "r", "t", "y", "N", "a", "m", "e", "s">>,
   <<"g", "e", "t", "P", "r", "o", "t", "o", "t", "y", "p", "e", "O", "f">>,
   <<"i", "s", "E", "x", "t", "e", "n", "s", "i", "b", "l", "e">>,
   <<"i", "s", "F", "r", "o", "z", "e", "n">>,
   <<"i", "s", "S", "e", "a", "l", "e", "d">>,
   <<"k", "e", "y", "s">>,
   <<"p", "r", "e", "v", "e", "n", "t", "E", "x", "t", "e", "n", "s", "i", "o", "n", "s">>,
   <<"s", "e", "a", "l">>}

\* The static methods added to Object since, in the order the runtimes got
\* them: is, setPrototypeOf and getOwnPropertySymbols before Node.js 4,
\* assign with 4, entries, values and getOwnPropertyDescriptors with 7,
\* fromEntries with 12, hasOwn with 16.9 and groupBy with 21.
LaterObjectStatics ==
  <<{<<"i", "s">>,
    <<"s", "e", "t", "P", "r", "o", "t", "o", "t", "y", "p", "e", "O", "f">>,
    <<"g", "e", "t", "O", "w", "n", "P", "r", "o", "p", "e", "r", "t", "y", "S", "y", "m", "b", "o", "l", "s">>},
    {<<"a", "s", "s", "i", "g", "n">>},
    {<<"e", "n", "t", "r", "i", "e", "s">>,
     <<"v", "a", "l", "u", "e", "s">>,
     <<"g", "e", "t", "O", "w", "n", "P", "r", "o", "p", "e", "r", "t", "y", "D", "e", "s", "c", "r", "i", "p", "t", "o", "r", "s">>},
    {<<"f", "r", "o", "m", "E", "n", "t", "r", "i", "e", "s">>},
    {HasOwn},
    {GroupBy}>>

\* What a runtime can define of them: those of the releases up to its own.
Runtimes ==
  {UNION {LaterObjectStatics[i] : i \in 1..n} :
     n \in 0..Len(LaterObjectStatics)}

\* Own properties of the function Object, which Object.prototype.constructor
\* is, besides length and name, on the runtime the program runs on.
ObjectConstructorKeys == BaseObjectStatics \cup objectStatics

\* member?.[packageName] ?? null where member is what a plain object inherits
\* under catalogName: Object.prototype itself for "__proto__", whose own
\* "__proto__" is null, and a built-in function for every other name.  The
\* name of such a function is a string.
InheritedMemberLookup(catalogName, packageName) ==
  IF catalogName = ProtoKey
  THEN IF packageName \in ObjectPrototypeKeys \ {ProtoKey} THEN NotAString
       ELSE NullString
  ELSE IF packageName = NameKey
  THEN Some(IF catalogName = <<"c", "o", "n", "s", "t", "r", "u", "c", "t", "o", "r">>
            THEN <<"O", "b", "j", "e", "c", "t">> ELSE catalogName)
  ELSE IF packageName \in RestrictedFunctionKeys THEN ThrownTypeError
  ELSE IF packageName \in FunctionPrototypeKeys \cup ObjectPrototypeKeys
  THEN NotAString
  ELSE IF /\ catalogName = <<"c", "o", "n", "s", "t", "r", "u", "c", "t", "o", "r">>
          /\ packageName \in ObjectConstructorKeys
  THEN NotAString
  ELSE NullString

\* yaml.catalogs?.[catalogName]?.[packageName] ?? null.  A catalog name that
\* is not an own key and that Object.prototype supplies selects that member.
NamedCatalogLookup(yaml, catalogName, packageName) ==
  IF "catalogs" \notin yaml.members THEN NullString
  ELSE IF catalogName \in DOMAIN yaml.catalogs
  THEN CatalogLookup(TRUE, yaml.catalogs[catalogName], packageName)
  ELSE IF catalogName \in ObjectPrototypeKeys
  THEN InheritedMemberLookup(catalogName, packageName)
  ELSE NullString

\* resolvePnpmCatalog once the document is read.
CatalogEntry(yaml, packageName, catalogName) ==
  IF yaml.isNull THEN NullString
  ELSE IF catalogName = DefaultCatalog
  THEN CatalogLookup("catalog" \in yaml.members, yaml.catalog, packageName)
  ELSE NamedCatalogLookup(yaml, catalogName, packageName)

resolvePnpmCatalog(packageName, catalogName, ws) ==
  CatalogEntry(readPnpmWorkspaceYaml(ws), packageName, catalogName)

detectPackageManager(ws) == ws.packageManager

\* Variant: the catalog is read whatever package manager was detected.
AfterDetection_ignoresManager(packageManager, packageName, catalogName, ws) ==
  resolvePnpmCatalog(packageName, catalogName, ws)

\* resolveVersion once the detection has answered: null unless it answered
\* pnpm, else the entry of the catalog in the workspace as it is now.
AfterDetection(packageManager, packageName, catalogName, ws) ==
  IF packageManager # "pnpm" THEN NullString
  ELSE resolvePnpmCatalog(packageName, catalogName, ws)

\* What a call of resolveVersion returns when the workspace does not change
\* while it waits for the detection.
resolveVersion(version, packageName, ws) ==
  LET catalogRef == parseCatalogReference(version)
  IN  IF catalogRef.isNull THEN Some(version)
      ELSE AfterDetection(detectPackageManager(ws), packageName,
                          catalogRef.value, ws)

-----------------------------------------------------------------------------
(* Inputs: the files and options a call can find *)

\* "zod"
Zod == <<"z", "o", "d">>

\* "@s/a"
StdA == <<"@", "s", "/", "a">>

\* "prod"
Prod == <<"p", "r", "o", "d">>

\* "npm:zod@3"
NpmZod1 == <<"n", "p", "m", ":", "z", "o", "d", "@", "3">>

\* "npm:zod@3.21.0"
NpmZod3 == <<"n", "p", "m", ":", "z", "o", "d", "@", "3", ".", "2", "1", ".", "0">>

\* "npm:zod@3.22/fp"
NpmZodSub == <<"n", "p", "m", ":", "z", "o", "d", "@", "3", ".", "2", "2", "/", "f", "p">>

\* "jsr:@s/a@0.9.0/x"
JsrStdASub == <<"j", "s", "r", ":", "@", "s", "/", "a", "@", "0", ".", "9", ".", "0", "/", "x">>

\* "https://x"
HttpsUrl == <<"h", "t", "t", "p", "s", ":", "/", "/", "x">>

\* "^3.22.4"
RangeCaret3 == <<"^", "3", ".", "2", "2", ".", "4">>

\* "3"
RangeBare1 == <<"3">>

\* "^3.21.0"
RangeSame3 == <<"^", "3", ".", "2", "1", ".", "0">>

\* "catalog:"
RangeCatalog == <<"c", "a", "t", "a", "l", "o", "g", ":">>

\* "catalog:prod"
RangeCatalogProd == <<"c", "a", "t", "a", "l", "o", "g", ":", "p", "r", "o", "d">>

\* "catalog:dev"
RangeCatalogDev == <<"c", "a", "t", "a", "l", "o", "g", ":", "d", "e", "v">>

\* "file:../2.0/z"
RangeFile == <<"f", "i", "l", "e", ":", ".", ".", "/", "2", ".", "0", "/", "z">>

\* "~3.22"
RangeTilde2 == <<"~", "3", ".", "2", "2">>

\* "^1.0.0"
RangeJsr == <<"^", "1", ".", "0", ".", "0">>

\* "npm:constructor@1"
NpmCtor == <<"n", "p", "m", ":", "c", "o", "n", "s", "t", "r", "u", "c", "t", "o", "r", "@", "1">>

\* "jsr:@s/a@^0.9.0"
JsrStdARange == <<"j", "s", "r", ":", "@", "s", "/", "a", "@", "^", "0", ".", "9", ".", "0">>

\* "npm:zod@1.2.3.4"
NpmZod4 == <<"n", "p", "m", ":", "z", "o", "d", "@", "1", ".", "2", ".", "3", ".", "4">>

Specifiers == {NpmZod1, NpmZod3, NpmZodSub, JsrStdASub, HttpsUrl}

DevRanges == {RangeTilde2}

DepRanges ==
  {RangeCaret3, RangeBare1, RangeSame3, RangeCatalog, RangeCatalogProd,
   RangeCatalogDev, RangeFile}

Precisions == {"auto", "major", "minor", "full"}

\* The k-th alias key of an import map: "k", "kk", "kkk", ...
Key(k) == [j \in 1..k |-> "k"]

\* Import maps of at most MaxEntries entries with distinct keys, in text order.
ImportMaps ==
  UNION {{[k \in 1..n |-> [key |-> Key(k), isString |-> TRUE, value |-> f[k]]] :
            f \in [1..n -> Specifiers]} : n \in 0..MaxEntries}

Sections(names, ranges) ==
  UNION {[D -> ranges] : D \in SUBSET names}

\* package.json: zod may be declared in either section, @s/a in dependencies.
Manifests ==
  {[sections |-> {"devDependencies", "dependencies"},
    devDependencies |-> d, dependencies |-> z @@ a] :
     d \in Sections({Zod}, DevRanges), z \in Sections({Zod}, DepRanges),
     a \in Sections({StdA}, {RangeJsr})}

\* A workspace whose pnpm-workspace.yaml has a default catalog and the named
\* catalog prod (and no catalog dev), under pnpm or under npm.
Workspaces ==
  {[packageManager |-> pm, yamlExists |-> TRUE, yamlParses |-> TRUE,
    members |-> {"catalog", "catalogs"}, catalog |-> (Zod :> RangeCaret3),
    catalogs |-> (Prod :> (Zod :> RangeSame3))] : pm \in {"pnpm", "npm"}}

-----------------------------------------------------------------------------
(* JSON.parse and JSON.stringify of the imports object *)

DigitValue(c) ==
  CASE c = "0" -> 0 [] c = "1" -> 1 [] c = "2" -> 2 [] c = "3" -> 3
    [] c = "4" -> 4 [] c = "5" -> 5 [] c = "6" -> 6 [] c = "7" -> 7
    [] c = "8" -> 8 [] c = "9" -> 9

\* The greatest array index, 2^32 - 2, in decimal digits.
MaxArrayIndex == <<"4", "2", "9", "4", "9", "6", "7", "2", "9", "4">>

\* a <= b for canonical decimal numerals: the shorter one is the smaller,
\* and numerals of one length compare digit by digit from the left.
NumeralLeq(a, b) ==
  \/ Len(a) < Len(b)
  \/ /\ Len(a) = Len(b)
     /\ \/ a = b
        \/ \E i \in 1..Len(a) :
             /\ DigitValue(a[i]) < DigitValue(b[i])
             /\ \A j \in 1..(i - 1) : a[j] = b[j]

\* A property key that is a canonical array index: a decimal numeral without
\* a leading zero, at most 2^32 - 2.
IsArrayIndex(k) ==
  /\ Len(k) \in 1..Len(MaxArrayIndex)
  /\ \A j \in 1..Len(k) : k[j] \in Digits
  /\ (Len(k) = 1 \/ k[1] # "0")
  /\ NumeralLeq(k, MaxArrayIndex)

RECURSIVE AscendingIndexKeys(_, _)
AscendingIndexKeys(file, I) ==
  IF I = {} THEN <<>>
  ELSE LET i == CHOOSE i \in I :
                  \A j \in I : NumeralLeq(file[i].key, file[j].key)
       IN  <<file[i]>> \o AscendingIndexKeys(file, I \ {i})

\* Own properties of the parsed object in the order Object.entries and
\* JSON.stringify enumerate them: array-index keys ascending, then the other
\* keys in the order of the text.
ObjectEntries(file) ==
  AscendingIndexKeys(file, {i \in 1..Len(file) : IsArrayIndex(file[i].key)})
    \o SelectSeq(file, LAMBDA e : ~IsArrayIndex(e.key))

-----------------------------------------------------------------------------
(* main.ts: syncDenoNpmDependencies *)

\* No function of the catalog resolver has been called.
NoCall == [fn |-> "", text |-> <<>>, packageName |-> <<>>, catalogName |-> <<>>]

\* The tasks that may each have one call of resolveVersion under way.
Tasks == {"a", "b"}

\* A task with no call of resolveVersion under way.
Idle ==
  [stage |-> "idle", version |-> <<>>, packageName |-> <<>>, manager |-> "",
   reads |-> {}]

NoWorkspace ==
  [packageManager |-> "", yamlExists |-> FALSE, yamlParses |-> FALSE,
   members |-> {}, catalog |-> <<>>, catalogs |-> <<>>]

\* resolveVersion did not call resolvePnpmCatalog.
NoLookup ==
  [made |-> FALSE, packageName |-> <<>>, catalogName |-> <<>>,
   result |-> NullString]

\* The last call was not one of resolveVersion.  Of one that was, seen holds
\* the package manager it detected ("" when it did not ask), the workspace
\* as it was when the call read pnpm-workspace.yaml (NoWorkspace when it did
\* not read it), and the call of resolvePnpmCatalog it made: its arguments
\* and its result.
NotSeen == [manager |-> "", workspace |-> NoWorkspace, lookup |-> NoLookup]

Init ==
  /\ pkgExists \in BOOLEAN
  /\ denoExists \in BOOLEAN
  /\ pkgFile \in Manifests
  /\ denoFile \in ImportMaps
  /\ workspace \in Workspaces
  /\ versionPrecision \in Precisions
  /\ (pkgExists /\ denoExists) \/
       (/\ Len(denoFile) = 0
        /\ DOMAIN pkgFile.devDependencies = {}
        /\ DOMAIN pkgFile.dependencies = {}
        /\ workspace.packageManager = "pnpm")
  /\ pc = "idle"
  /\ deno = <<>>
  /\ idx = 0
  /\ updates = <<>>
  /\ hasUpdates = FALSE
  /\ runs = 0
  /\ writes = 0
  /\ startFile = denoFile
  /\ error = ""
  /\ silent = FALSE
  /\ log = <<>>
  /\ call = NoCall
  /\ answer = NullString
  /\ consulted = {}
  /\ tree = {}
  /\ pending = [t \in Tasks |-> Idle]
  /\ seen = NotSeen
  /\ objectStatics = {}

\* Variant: deno.json is looked for before package.json.
Start_checksDenoFirst ==
  /\ pc \in {"idle", "done"}
  /\ runs < MaxRuns
  /\ startFile' = denoFile
  /\ writes' = 0
  /\ updates' = <<>>
  /\ hasUpdates' = FALSE
  /\ log' = <<>>
  /\ IF ~denoExists
     THEN /\ error' = "deno.json not found at: denoPath"
          /\ pc' = "failed"
          /\ runs' = runs + 1
          /\ UNCHANGED <<deno, idx>>
     ELSE IF ~pkgExists
     THEN /\ error' = "package.json not found at: pkgPath"
          /\ pc' = "failed"
          /\ runs' = runs + 1
          /\ UNCHANGED <<deno, idx>>
     ELSE /\ error' = ""
          /\ pc' = "loop"
          /\ deno' = ObjectEntries(denoFile)
          /\ idx' = 1
          /\ UNCHANGED runs
  /\ UNCHANGED resolverVars
  /\ UNCHANGED <<pkgExists, denoExists, pkgFile, denoFile, workspace,
                 versionPrecision, silent>>

\* Entry of the call up to the for-of loop: the two existence checks, the two
\* JSON.parse calls, the initialisation of updates and hasUpdates.
Start ==
  /\ pc \in {"idle", "done"}
  /\ runs < MaxRuns
  /\ startFile' = denoFile
  /\ writes' = 0
  /\ updates' = <<>>
  /\ hasUpdates' = FALSE
  /\ log' = <<>>
  /\ IF ~pkgExists
     THEN /\ error' = "package.json not found at: pkgPath"
          /\ pc' = "failed"
          /\ runs' = runs + 1
          /\ UNCHANGED <<deno, idx>>
     ELSE IF ~denoExists
     THEN /\ error' = "deno.json not found at: denoPath"
          /\ pc' = "failed"
          /\ runs' = runs + 1
          /\ UNCHANGED <<deno, idx>>
     ELSE /\ error' = ""
          /\ pc' = "loop"
          /\ deno' = ObjectEntries(denoFile)
          /\ idx' = 1
          /\ UNCHANGED runs
  /\ UNCHANGED resolverVars
  /\ UNCHANGED <<pkgExists, denoExists, pkgFile, denoFile, workspace,
                 versionPrecision, silent>>

\* What the loop does with the outcome r of processing entry idx: the
\* TypeError ends the call, null leaves the entry, a result is assigned to
\* deno.imports[importKey] and pushed on updates.
Apply(r) ==
  IF r.throws
  THEN /\ error' = "TypeError"
       /\ pc' = "failed"
       /\ runs' = runs + 1
       /\ UNCHANGED <<deno, updates, hasUpdates, idx>>
  ELSE /\ IF r.isNull
          THEN UNCHANGED <<deno, updates, hasUpdates>>
          ELSE /\ deno' = [deno EXCEPT ![idx].value = r.newImport]
               /\ updates' = Append(updates,
                                    [name |-> r.name,
                                     oldVersion |-> r.oldVersion,
                                     newVersion |-> r.newVersion])
               /\ hasUpdates' = TRUE
       /\ idx' = idx + 1
       /\ UNCHANGED <<pc, runs, error>>

\* Variant: a new record is put at the head of updates.
Step_prependsUpdate ==
  /\ pc = "loop"
  /\ idx <= Len(deno)
  /\ LET r == processEntry(deno[idx], pkgFile, versionPrecision)
     IN  IF r.throws
         THEN /\ error' = "TypeError"
              /\ pc' = "failed"
              /\ runs' = runs + 1
              /\ UNCHANGED <<deno, updates, hasUpdates, idx>>
         ELSE /\ IF r.isNull
                 THEN UNCHANGED <<deno, updates, hasUpdates>>
                 ELSE /\ deno' = [deno EXCEPT ![idx].value = r.newImport]
                      /\ updates' = <<[name |-> r.name,
                                       oldVersion |-> r.oldVersion,
                                       newVersion |-> r.newVersion]>>
                                    \o updates
                      /\ hasUpdates' = TRUE
              /\ idx' = idx + 1
              /\ UNCHANGED <<pc, runs, error>>
  /\ UNCHANGED resolverVars
  /\ UNCHANGED <<pkgExists, denoExists, pkgFile, denoFile, workspace,
                 versionPrecision, writes, startFile, silent, log>>

\* Variant: every update of an entry is written to deno.json at once.
Step_writesThrough ==
  /\ pc = "loop"
  /\ idx <= Len(deno)
  /\ LET r == processEntry(deno[idx], pkgFile, versionPrecision)
     IN  IF r.throws
         THEN /\ error' = "TypeError"
              /\ pc' = "failed"
              /\ runs' = runs + 1
              /\ UNCHANGED <<deno, updates, hasUpdates, idx, denoFile, writes>>
         ELSE /\ IF r.isNull
                 THEN UNCHANGED <<deno, updates, hasUpdates, denoFile, writes>>
                 ELSE /\ deno' = [deno EXCEPT ![idx].value = r.newImport]
                      /\ updates' = Append(updates,
                                           [name |-> r.name,
                                            oldVersion |-> r.oldVersion,
                                            newVersion |-> r.newVersion])
                      /\ hasUpdates' = TRUE
                      /\ denoFile' = deno'
                      /\ writes' = writes + 1
              /\ idx' = idx + 1
              /\ UNCHANGED <<pc, runs, error>>
  /\ UNCHANGED resolverVars
  /\ UNCHANGED <<pkgExists, denoExists, pkgFile, workspace, versionPrecision,
                 startFile, silent, log>>

\* One iteration of the for-of loop over Object.entries(deno.imports). A
\* TypeError raised by processImport is not caught: it ends the call.
Step ==
  /\ pc = "loop"
  /\ idx <= Len(deno)
  /\ Apply(processEntry(deno[idx], pkgFile, versionPrecision))
  /\ UNCHANGED resolverVars
  /\ UNCHANGED <<pkgExists, denoExists, pkgFile, denoFile, workspace,
                 versionPrecision, writes, startFile, silent, log>>

\* A line passed to console.log.
LogLine(kind, u) ==
  [kind |-> kind, name |-> u.name, oldVersion |-> u.oldVersion,
   newVersion |-> u.newVersion]

NoUpdate == [name |-> <<>>, oldVersion |-> <<>>, newVersion |-> <<>>]

\* What the call logs after the loop when it is not silent: the heading and
\* one line per update, or the already-in-sync line.
LoggedLines(has, ups) ==
  IF has
  THEN <<LogLine("Updated Deno dependencies:", NoUpdate)>>
       \o [j \in 1..Len(ups) |-> LogLine("update", ups[j])]
  ELSE <<LogLine("Deno imports are already in sync with package.json",
                 NoUpdate)>>

\* Variant: a silent call does not write the file either.
Finish_silentSkipsWrite ==
  /\ pc = "loop"
  /\ idx > Len(deno)
  /\ IF hasUpdates /\ ~silent
     THEN /\ denoFile' = deno
          /\ writes' = writes + 1
     ELSE UNCHANGED <<denoFile, writes>>
  /\ log' = IF silent THEN <<>> ELSE LoggedLines(hasUpdates, updates)
  /\ pc' = "done"
  /\ runs' = runs + 1
  /\ UNCHANGED resolverVars
  /\ UNCHANGED <<pkgExists, denoExists, pkgFile, workspace, versionPrecision,
                 deno, idx, updates, hasUpdates, startFile, error, silent>>

\* Variant: the file is written whether or not an entry was updated.
Finish_alwaysWrites ==
  /\ pc = "loop"
  /\ idx > Len(deno)
  /\ denoFile' = deno
  /\ writes' = writes + 1
  /\ log' = IF silent THEN <<>> ELSE LoggedLines(hasUpdates, updates)
  /\ pc' = "done"
  /\ runs' = runs + 1
  /\ UNCHANGED resolverVars
  /\ UNCHANGED <<pkgExists, denoExists, pkgFile, workspace, versionPrecision,
                 deno, idx, updates, hasUpdates, startFile, error, silent>>

\* After the loop: the file is written when hasUpdates, the outcome is logged
\* unless silent, and the call returns { hasUpdates, updates }.
Finish ==
  /\ pc = "loop"
  /\ idx > Len(deno)
  /\ IF hasUpdates
     THEN /\ denoFile' = deno
          /\ writes' = writes + 1
     ELSE UNCHANGED <<denoFile, writes>>
  /\ log' = IF silent THEN <<>> ELSE LoggedLines(hasUpdates, updates)
  /\ pc' = "done"
  /\ runs' = runs + 1
  /\ UNCHANGED resolverVars
  /\ UNCHANGED <<pkgExists, denoExists, pkgFile, workspace, versionPrecision,
                 deno, idx, updates, hasUpdates, startFile, error, silent>>

Next == Start \/ Step \/ Finish

Spec == Init /\ [][Next]_vars

-----------------------------------------------------------------------------
(* The same call on import maps and manifests of any content *)

\* Values of the imports object: the specifiers of every form and a value
\* that is not a string.
ImportValues ==
  {[isString |-> TRUE, value |-> v] :
     v \in {NpmZod1, NpmZod3, JsrStdASub, NpmCtor, JsrStdARange, NpmZod4,
            HttpsUrl}}
  \cup {[isString |-> FALSE, value |-> <<>>]}

\* The k-th alias key: "k", "kk", ... or, under the index scheme, the
\* integer-like keys "2", "3", ... after a first key "k".
AliasKey(scheme, k) ==
  IF scheme = "index" /\ k > 1
  THEN <<CHOOSE c \in Digits : DigitValue(c) = k>>
  ELSE Key(k)

\* Import maps of 0..MaxEntries entries, in text order.
AnyImportMaps ==
  UNION {{[k \in 1..n |-> [key |-> AliasKey(scheme, k),
                           isString |-> f[k].isString,
                           value |-> f[k].value]] :
            f \in [1..n -> ImportValues],
            scheme \in IF n > 1 THEN {"alpha", "index"} ELSE {"alpha"}} :
         n \in 0..MaxEntries}

\* package.json with only dependencies, with an empty devDependencies and
\* dependencies, and with neither section.
AnyManifests ==
  {[sections |-> {"dependencies"}, devDependencies |-> <<>>,
    dependencies |-> (Zod :> RangeCaret3) @@ (StdA :> RangeJsr)],
   [sections |-> {"devDependencies", "dependencies"},
    devDependencies |-> <<>>, dependencies |-> (Zod :> RangeCaret3)],
   [sections |-> {}, devDependencies |-> <<>>, dependencies |-> <<>>]}

InitAny ==
  /\ pkgExists \in BOOLEAN
  /\ denoExists \in BOOLEAN
  /\ pkgFile \in AnyManifests
  /\ denoFile \in AnyImportMaps
  /\ workspace \in {w \in Workspaces : w.packageManager = "pnpm"}
  /\ versionPrecision \in Precisions
  /\ silent \in BOOLEAN
  /\ ~pkgExists => pkgFile.sections = {}
  /\ ~denoExists => Len(denoFile) = 0
  /\ pc = "idle"
  /\ deno = <<>>
  /\ idx = 0
  /\ updates = <<>>
  /\ hasUpdates = FALSE
  /\ runs = 0
  /\ writes = 0
  /\ startFile = denoFile
  /\ error = ""
  /\ log = <<>>
  /\ call = NoCall
  /\ answer = NullString
  /\ consulted = {}
  /\ tree = {}
  /\ pending = [t \in Tasks |-> Idle]
  /\ seen = NotSeen
  /\ objectStatics = {}

SpecAny == InitAny /\ [][Next]_vars

-----------------------------------------------------------------------------
(* Vocabulary of the properties *)

\* The import map the running call read, in the order it iterates it.
StartEntries == ObjectEntries(startFile)

\* The import map on disk, in the same order.
AfterEntries == ObjectEntries(denoFile)

\* The call has returned { hasUpdates, updates }.
Returned == pc = "done"

\* Decomposition of a specifier by the dialect it belongs to, npm before jsr.
DialectMatch(e) ==
  LET n == npmPattern(e.value)
      j == jsrPattern(e.value)
  IN  IF e.isString /\ n.matched
      THEN [matched |-> TRUE, registry |-> "npm", name |-> n.name,
            version |-> n.version, subpath |-> n.subpath]
      ELSE IF e.isString /\ j.matched
      THEN [matched |-> TRUE, registry |-> "jsr", name |-> j.name,
            version |-> j.version, subpath |-> j.subpath]
      ELSE [matched |-> FALSE, registry |-> "", name |-> <<>>,
            version |-> <<>>, subpath |-> <<>>]

\* The declaration of a package in package.json, devDependencies first.
Declaration(name) ==
  IF name \in DOMAIN pkgFile.devDependencies
  THEN [declared |-> TRUE, range |-> pkgFile.devDependencies[name]]
  ELSE IF name \in DOMAIN pkgFile.dependencies
  THEN [declared |-> TRUE, range |-> pkgFile.dependencies[name]]
  ELSE [declared |-> FALSE, range |-> <<>>]

IsCatalogReference(range) == StartsWith(range, CatalogMarker)

Specifier(registry, name, version, subpath) ==
  RegistryPrefix(registry) \o name \o <<"@">> \o version \o subpath

Recorded(name, old, new) ==
  \E j \in 1..Len(updates) :
    updates[j] = [name |-> name, oldVersion |-> old, newVersion |-> new]

DotPositions(s) == {i \in 1..Len(s) : s[i] = "."}

SegmentCount(s) == Cardinality(DotPositions(s)) + 1

\* The first n dot-separated segments of s (all of s when it has fewer).
FirstSegments(s, n) ==
  IF n = 0 THEN <<>>
  ELSE IF Cardinality(DotPositions(s)) < n THEN s
  ELSE LET cut == CHOOSE i \in DotPositions(s) :
                    Cardinality({j \in DotPositions(s) : j <= i}) = n
       IN  SubSeq(s, 1, cut - 1)

-----------------------------------------------------------------------------
(* C1 *)

C1_Applies(k) ==
  LET m == DialectMatch(StartEntries[k])
      d == Declaration(m.name)
      V == StripLeadingNonDigits(d.range)
  IN  /\ m.matched
      /\ d.declared
      /\ ~IsCatalogReference(d.range)
      /\ IsNumericVersion(V)
      /\ V # m.version
      /\ SegmentCount(V) = SegmentCount(m.version)

\* C1: under the default precision, an npm or jsr entry whose package has a
\* directly declared numeric range with leading version V, V different from
\* the embedded version and of as many segments, is rewritten in deno.json to
\* <registry>:<name>@V<subpath>, the change {name, embedded version, V} is
\* returned and hasUpdates is true.
C1_DirectRangeRewritten ==
  (Returned /\ versionPrecision = "auto") =>
    \A k \in 1..Len(StartEntries) :
      C1_Applies(k) =>
        LET m == DialectMatch(StartEntries[k])
            V == StripLeadingNonDigits(Declaration(m.name).range)
        IN  /\ AfterEntries[k].key = StartEntries[k].key
            /\ AfterEntries[k].value =
                 Specifier(m.registry, m.name, V, m.subpath)
            /\ Recorded(m.name, m.version, V)
            /\ hasUpdates

C1_Witness ==
  /\ Returned
  /\ versionPrecision = "auto"
  /\ \E k \in 1..Len(StartEntries) :
       C1_Applies(k) /\ DialectMatch(StartEntries[k]).registry = "npm"
  /\ \E k \in 1..Len(StartEntries) :
       C1_Applies(k) /\ DialectMatch(StartEntries[k]).registry = "jsr"
         /\ DialectMatch(StartEntries[k]).subpath # <<>>

-----------------------------------------------------------------------------
(* C2 *)

\* C2: a second call in succession on the same files returns
\* hasUpdates = false and no change, and leaves deno.json as the first call
\* left it.
C2_Idempotent ==
  (Returned /\ runs >= 2) =>
    (~hasUpdates /\ updates = <<>> /\ denoFile = startFile)

-----------------------------------------------------------------------------
(* C3 *)

\* The number of segments a precision mode keeps of a candidate.
KeptSegments(candidate, embedded, precision) ==
  IF precision = "major" THEN 1
  ELSE IF precision = "minor" THEN 2
  ELSE IF precision = "full" THEN SegmentCount(candidate)
  ELSE SegmentCount(embedded)

Truncated(candidate, embedded, precision) ==
  FirstSegments(candidate, KeptSegments(candidate, embedded, precision))

NoRecordFor(m) ==
  ~\E j \in 1..Len(updates) :
     updates[j].name = m.name /\ updates[j].oldVersion = m.version

\* C3: an entry whose package is declared by a catalog reference that the
\* workspace resolves to a range R carries, after the call, the leading
\* numeric version of R (at the kept precision), and the change is recorded.
C3_CatalogResolved ==
  Returned =>
    \A k \in 1..Len(StartEntries) :
      LET m == DialectMatch(StartEntries[k])
          d == Declaration(m.name)
          r == resolveVersion(d.range, m.name, workspace)
          V == Truncated(StripLeadingNonDigits(r.value), m.version,
                         versionPrecision)
      IN  (m.matched /\ d.declared /\ IsCatalogReference(d.range) /\ ~r.isNull)
            => /\ AfterEntries[k].value =
                    Specifier(m.registry, m.name, V, m.subpath)
               /\ (V # m.version => Recorded(m.name, m.version, V))

-----------------------------------------------------------------------------
(* C4 *)

\* C4: an entry whose package is declared by a catalog reference that cannot
\* be resolved is left unchanged and gets no change record.
C4_UnresolvableLeftAlone ==
  Returned =>
    \A k \in 1..Len(StartEntries) :
      LET m == DialectMatch(StartEntries[k])
          d == Declaration(m.name)
          r == resolveVersion(d.range, m.name, workspace)
      IN  (m.matched /\ d.declared /\ IsCatalogReference(d.range) /\ r.isNull)
            => (AfterEntries[k] = StartEntries[k] /\ NoRecordFor(m))

-----------------------------------------------------------------------------
(* C5 *)

\* C5: an entry whose candidate, taken from the direct range or from the
\* range its catalog reference resolves to, equals the embedded version once
\* truncated to the precision, is not rewritten and has no change record.
C5_NoOpPrecisionGuard ==
  Returned =>
    \A k \in 1..Len(StartEntries) :
      LET m == DialectMatch(StartEntries[k])
          d == Declaration(m.name)
          r == resolveVersion(d.range, m.name, workspace)
          candidate == StripLeadingNonDigits(r.value)
      IN  (/\ m.matched /\ d.declared /\ ~r.isNull
           /\ Truncated(candidate, m.version, versionPrecision) = m.version)
            => (AfterEntries[k] = StartEntries[k] /\ NoRecordFor(m))

-----------------------------------------------------------------------------
(* C6 *)

C6_Changed(k) == AfterEntries[k].value # StartEntries[k].value

\* C6: the version written for a changed entry is the candidate (the range
\* of package.json without its leading non-digits) cut to its first segment
\* (major), its first two segments (minor), all of it (full), or as many
\* segments as the embedded version had (auto).
C6_NewVersionIsSegmentPrefix ==
  Returned =>
    \A k \in 1..Len(StartEntries) :
      C6_Changed(k) =>
        LET m == DialectMatch(StartEntries[k])
            candidate == StripLeadingNonDigits(Declaration(m.name).range)
            new == Truncated(candidate, m.version, versionPrecision)
        IN  /\ AfterEntries[k].value =
                 Specifier(m.registry, m.name, new, m.subpath)
            /\ Recorded(m.name, m.version, new)

C6_Witness ==
  /\ Returned
  /\ versionPrecision = "auto"
  /\ \E k \in 1..Len(StartEntries) :
       LET m == DialectMatch(StartEntries[k])
           candidate == StripLeadingNonDigits(Declaration(m.name).range)
       IN  /\ C6_Changed(k)
           /\ IsNumericVersion(candidate)
           /\ SegmentCount(m.version) = 2
           /\ SegmentCount(candidate) = 3

-----------------------------------------------------------------------------
(* C7 *)

\* C7: with precision major, every entry of a dialect whose package is
\* declared carries after the call the first segment of the declared version
\* and nothing else.  Stated for directly declared numeric ranges.
C7_MajorAlwaysMajor ==
  (Returned /\ versionPrecision = "major") =>
    \A k \in 1..Len(StartEntries) :
      LET m == DialectMatch(StartEntries[k])
          d == Declaration(m.name)
          V == StripLeadingNonDigits(d.range)
          a == DialectMatch(AfterEntries[k])
      IN  (m.matched /\ d.declared /\ IsNumericVersion(V))
            => (a.matched /\ a.version = FirstSegments(V, 1))

-----------------------------------------------------------------------------
(* C8 *)

\* C8: with precision auto, the embedded version of every entry has after
\* the call as many segments as before.  Stated for directly declared
\* numeric ranges.
C8_AutoPreservesFormat ==
  (Returned /\ versionPrecision = "auto") =>
    \A k \in 1..Len(StartEntries) :
      LET m == DialectMatch(StartEntries[k])
          d == Declaration(m.name)
          a == DialectMatch(AfterEntries[k])
      IN  (/\ m.matched /\ d.declared
           /\ IsNumericVersion(StripLeadingNonDigits(d.range)))
            => (a.matched /\ SegmentCount(a.version) = SegmentCount(m.version))

-----------------------------------------------------------------------------
(* C9 *)

C9_Applies(k) ==
  LET m == DialectMatch(StartEntries[k])
      d == Declaration(m.name)
  IN  m.matched /\ d.declared /\ StripLeadingNonDigits(d.range) = m.version

\* C9: an entry whose candidate (the declared range without its leading
\* non-digits) is the embedded version, character for character, is left
\* unchanged and has no change record, in every precision mode; when all
\* entries are so, hasUpdates is false and no change is returned.
C9_ExactMatchUnchanged ==
  Returned =>
    /\ \A k \in 1..Len(StartEntries) :
         C9_Applies(k) =>
           /\ AfterEntries[k] = StartEntries[k]
           /\ NoRecordFor(DialectMatch(StartEntries[k]))
    /\ (\A k \in 1..Len(StartEntries) : C9_Applies(k)) =>
         (~hasUpdates /\ updates = <<>> /\ denoFile = startFile)

C9_Witness ==
  /\ Returned
  /\ versionPrecision = "major"
  /\ Len(StartEntries) >= 1
  /\ \A k \in 1..Len(StartEntries) :
       /\ C9_Applies(k)
       /\ SegmentCount(DialectMatch(StartEntries[k]).version) = 3

-----------------------------------------------------------------------------
(* C10 *)

\* What an entry carries after the call when its candidate is given.
ExpectedVersion(candidate, embedded, precision) ==
  IF candidate = embedded THEN embedded
  ELSE Truncated(candidate, embedded, precision)

C10_Follows(k, range) ==
  LET m == DialectMatch(StartEntries[k])
  IN  AfterEntries[k].value =
        Specifier(m.registry, m.name,
                  ExpectedVersion(StripLeadingNonDigits(range), m.version,
                                  versionPrecision),
                  m.subpath)

\* C10: the devDependencies declaration of a package alone decides what its
\* entries become, also when dependencies declares the package too; the
\* dependencies declaration decides only when devDependencies has none.
C10_DevDependenciesWin ==
  Returned =>
    \A k \in 1..Len(StartEntries) :
      LET m == DialectMatch(StartEntries[k])
      IN  m.matched =>
            /\ (m.name \in DOMAIN pkgFile.devDependencies
                  => C10_Follows(k, pkgFile.devDependencies[m.name]))
            /\ (/\ m.name \notin DOMAIN pkgFile.devDependencies
                /\ m.name \in DOMAIN pkgFile.dependencies)
                  => C10_Follows(k, pkgFile.dependencies[m.name])

C10_Witness ==
  /\ Returned
  /\ \E k \in 1..Len(StartEntries) :
       LET m == DialectMatch(StartEntries[k])
       IN  /\ m.matched
           /\ m.name \in DOMAIN pkgFile.devDependencies
           /\ m.name \in DOMAIN pkgFile.dependencies
           /\ C6_Changed(k)
           /\ ~C10_Follows(k, pkgFile.dependencies[m.name])

-----------------------------------------------------------------------------
(* C11 *)

\* The call is in or after its loop: deno holds the imports it parsed.
Parsed == pc \in {"loop", "done"}

C11_Unmatched(k) == ~DialectMatch(StartEntries[k]).matched

\* C11: an entry whose value matches neither the npm nor the jsr pattern keeps
\* its value, in memory and on disk, whatever the manifest and the other
\* entries are, and every change record belongs to an entry that matches a
\* pattern and was rewritten.
C11_UnmatchedEntryUntouched ==
  /\ \A k \in 1..Len(StartEntries) :
       C11_Unmatched(k) =>
         /\ AfterEntries[k] = StartEntries[k]
         /\ Parsed => deno[k] = StartEntries[k]
  /\ Parsed =>
       \A j \in 1..Len(updates) :
         \E k \in 1..Len(StartEntries) :
           LET m == DialectMatch(StartEntries[k])
           IN  /\ m.matched
               /\ updates[j].name = m.name
               /\ updates[j].oldVersion = m.version
               /\ deno[k].value # StartEntries[k].value

C11_Witness ==
  /\ Returned
  /\ hasUpdates
  /\ \E k \in 1..Len(StartEntries) :
       /\ StartEntries[k].isString
       /\ StartEntries[k].value = JsrStdARange
       /\ StdA \in DOMAIN pkgFile.dependencies

-----------------------------------------------------------------------------
(* C12 *)

C12_Undeclared(k) ==
  LET m == DialectMatch(StartEntries[k])
  IN  m.matched /\ ~Declaration(m.name).declared

\* C12: an entry that matches a pattern and whose package name is a key of
\* neither devDependencies nor dependencies keeps its value, in memory and on
\* disk, and no change record bears its package name.
C12_UndeclaredEntryUntouched ==
  \A k \in 1..Len(StartEntries) :
    C12_Undeclared(k) =>
      /\ AfterEntries[k] = StartEntries[k]
      /\ Parsed => deno[k] = StartEntries[k]
      /\ \A j \in 1..Len(updates) :
           updates[j].name # DialectMatch(StartEntries[k]).name

C12_Witness ==
  /\ Returned
  /\ hasUpdates
  /\ "dependencies" \in pkgFile.sections
  /\ \E k \in 1..Len(StartEntries) : C12_Undeclared(k)

-----------------------------------------------------------------------------
(* C13 *)

\* The running call has rewritten entry k, which carries a subpath.
C13_RewrittenWithSubpath(k) ==
  /\ Parsed
  /\ DialectMatch(StartEntries[k]).subpath # <<>>
  /\ deno[k].value # StartEntries[k].value

\* C13: when an entry with a subpath is rewritten, the new specifier is the
\* original one with the embedded version replaced by the recorded new
\* version: same registry, same package name, same subpath with its leading
\* slash, under the same alias key, for npm and for jsr.
C13_OnlyVersionChanges ==
  \A k \in 1..Len(StartEntries) :
    C13_RewrittenWithSubpath(k) =>
      LET m == DialectMatch(StartEntries[k])
      IN  /\ deno[k].key = StartEntries[k].key
          /\ \E j \in 1..Len(updates) :
               /\ updates[j].name = m.name
               /\ updates[j].oldVersion = m.version
               /\ deno[k].value =
                    Specifier(m.registry, m.name, updates[j].newVersion,
                              m.subpath)
          /\ Returned => AfterEntries[k] = deno[k]

C13_Witness ==
  /\ Returned
  /\ \E k \in 1..Len(StartEntries) :
       C13_RewrittenWithSubpath(k)
         /\ DialectMatch(StartEntries[k]).registry = "npm"
  /\ \E k \in 1..Len(StartEntries) :
       C13_RewrittenWithSubpath(k)
         /\ DialectMatch(StartEntries[k]).registry = "jsr"

-----------------------------------------------------------------------------
(* C14 *)

\* The call was made: it is running, has returned or has thrown.
Called == pc # "idle"

\* The call threw the given message before it read or parsed anything.
C14_FailedAtOnce(message) ==
  /\ pc = "failed"
  /\ error = message
  /\ deno = <<>>
  /\ idx = 0
  /\ updates = <<>>
  /\ writes = 0
  /\ denoFile = startFile
  /\ log = <<>>

\* C14 as stated: a call with no package.json fails with the error that names
\* the package.json path, and a call with no deno.json fails with the error
\* that names the deno.json path.
C14_EachMissingFileNamed ==
  Called =>
    /\ ~pkgExists => pc = "failed" /\ error = "package.json not found at: pkgPath"
    /\ ~denoExists => pc = "failed" /\ error = "deno.json not found at: denoPath"

\* C14, amended: a call with no package.json fails with the error that names
\* the package.json path; a call with a package.json and no deno.json fails
\* with the error that names the deno.json path; either failure happens
\* before anything is parsed or processed, and nothing is written or logged.
C14_MissingFileFailsFirst ==
  Called =>
    /\ ~pkgExists => C14_FailedAtOnce("package.json not found at: pkgPath")
    /\ (pkgExists /\ ~denoExists) =>
         C14_FailedAtOnce("deno.json not found at: denoPath")

C14_Witness ==
  /\ pc = "failed"
  /\ ~pkgExists
  /\ denoExists
  /\ Len(denoFile) = MaxEntries
  /\ \E k \in 1..Len(denoFile) : denoFile[k].value = NpmZod1

-----------------------------------------------------------------------------
(* C15 *)

\* C15: when package.json and deno.json both exist and parse, the call never
\* throws, whatever the entries and the manifest hold: it returns a result.
C15_NoEntryAbortsTheRun ==
  (Called /\ pkgExists /\ denoExists) => pc # "failed"

-----------------------------------------------------------------------------
(* C16 *)

\* The running call gave entry k a new value.
Rewritten(k) == Parsed /\ deno[k].value # StartEntries[k].value

\* C16: a call that returns has written deno.json exactly when it rewrote at
\* least one entry; the written file holds the rewritten imports, and a call
\* that rewrote no entry, or that threw, leaves the file as it found it.
C16_WrittenIffChanged ==
  /\ Returned =>
       /\ (writes >= 1) <=> (\E k \in 1..Len(StartEntries) : Rewritten(k))
       /\ writes >= 1 => denoFile = deno /\ denoFile # startFile
       /\ writes = 0 => denoFile = startFile
  /\ pc = "failed" => writes = 0 /\ denoFile = startFile

C16_Witness ==
  /\ Returned
  /\ writes = 1
  /\ \E k \in 1..Len(StartEntries) : Rewritten(k)
  /\ \E k \in 1..Len(StartEntries) :
       ~Rewritten(k) /\ DialectMatch(StartEntries[k]).matched

-----------------------------------------------------------------------------
(* C17 *)

\* C17: a call writes deno.json at most once and not before its loop has
\* evaluated every entry.  Whenever the file differs from what the call found,
\* the call has returned and the file holds every update the loop made; a
\* call that is still looping or that threw has left the file as it found it.
C17_SingleWriteAfterLoop ==
  /\ writes <= 1
  /\ pc \in {"loop", "failed"} => writes = 0 /\ denoFile = startFile
  /\ (writes = 1 \/ denoFile # startFile) =>
       /\ Returned
       /\ idx = Len(deno) + 1
       /\ Len(deno) = Len(StartEntries)
       /\ denoFile = deno

\* A call that had updated an entry in memory threw on a later entry.
C17_Witness ==
  /\ pc = "failed"
  /\ error = "TypeError"
  /\ hasUpdates
  /\ Len(updates) = 1
  /\ denoFile = startFile

-----------------------------------------------------------------------------
(* C18 *)

\* The alias keys of an imports object in the order of its text.
KeysInTextOrder(file) == [k \in 1..Len(file) |-> file[k].key]

\* C18: deno.json on disk has the alias keys the call found, in the same
\* order: no key is added, removed or moved.
C18_KeysAndOrderPreserved ==
  KeysInTextOrder(denoFile) = KeysInTextOrder(startFile)

-----------------------------------------------------------------------------
(* C19 *)

\* The entries the running call has rewritten so far, by position in the
\* order in which the loop meets them.
RewrittenSet == {k \in 1..Len(StartEntries) : Rewritten(k)}

\* C19: updates holds one record per rewritten entry and no other: the j-th
\* record is that of the j-th rewritten entry in the order of the loop, with
\* the entry's package name, its old embedded version and the version now
\* embedded in it.
C19_OneRecordPerChangeInOrder ==
  Parsed =>
    /\ Len(updates) = Cardinality(RewrittenSet)
    /\ \A k \in RewrittenSet :
         LET j == Cardinality({i \in RewrittenSet : i <= k})
             m == DialectMatch(StartEntries[k])
         IN  /\ updates[j].name = m.name
             /\ updates[j].oldVersion = m.version
             /\ deno[k].value =
                  Specifier(m.registry, m.name, updates[j].newVersion,
                            m.subpath)

\* Two aliases of one package were both rewritten, next to nothing else.
C19_Witness ==
  /\ Returned
  /\ Len(updates) = 2
  /\ updates[1].name = updates[2].name
  /\ updates[1].oldVersion # updates[2].oldVersion

-----------------------------------------------------------------------------
(* C20 *)

\* What a call that returns yields, as a function of the files and of the
\* precision alone: the entries that processing changes, the records of those
\* entries in order and the imports with their new values.
OutcomeChanged(entries, pkg, precision) ==
  {k \in 1..Len(entries) : ~processEntry(entries[k], pkg, precision).isNull}

OutcomeUpdates(entries, pkg, precision) ==
  LET C == OutcomeChanged(entries, pkg, precision)
  IN  [j \in 1..Cardinality(C) |->
         LET k == CHOOSE i \in C : Cardinality({h \in C : h <= i}) = j
             r == processEntry(entries[k], pkg, precision)
         IN  [name |-> r.name, oldVersion |-> r.oldVersion,
              newVersion |-> r.newVersion]]

OutcomeImports(entries, pkg, precision) ==
  [k \in 1..Len(entries) |->
     LET r == processEntry(entries[k], pkg, precision)
     IN  IF r.isNull THEN entries[k]
         ELSE [entries[k] EXCEPT !.value = r.newImport]]

\* C20: what a call returns and persists is determined by the two files and
\* the precision mode, whatever silent is, so two calls that differ only in
\* silent return the same hasUpdates and updates and leave the same
\* deno.json; a silent call logs nothing.
C20_SilentOnlySilences ==
  Returned =>
    LET C == OutcomeChanged(StartEntries, pkgFile, versionPrecision)
    IN  /\ hasUpdates = (C # {})
        /\ updates = OutcomeUpdates(StartEntries, pkgFile, versionPrecision)
        /\ denoFile = IF C = {} THEN startFile
                      ELSE OutcomeImports(StartEntries, pkgFile,
                                          versionPrecision)
        /\ silent => log = <<>>
        /\ ~silent => Len(log) = IF C = {} THEN 1 ELSE 1 + Len(updates)

C20_Witness ==
  /\ Returned
  /\ silent
  /\ hasUpdates
  /\ writes = 1
  /\ log = <<>>

-----------------------------------------------------------------------------
(* C21 *)

\* C21: only an entry whose embedded version has one to three dot-separated
\* integer segments is recognized: an entry with a version of four or more
\* segments is never rewritten.
C21_AtMostThreeSegments ==
  \A k \in 1..Len(StartEntries) :
    Rewritten(k) => SegmentCount(DialectMatch(StartEntries[k]).version) <= 3

-----------------------------------------------------------------------------
(* catalog-resolver: the calls of its functions *)

MaxDepth == 2

\* "constructor"
Ctor == <<"c", "o", "n", "s", "t", "r", "u", "c", "t", "o", "r">>

\* "dev"
Dev == <<"d", "e", "v">>

\* "catalog:  "
RangeCatalogBlank == <<"c", "a", "t", "a", "l", "o", "g", ":", " ", " ">>

\* "catalog:default"
RangeCatalogDefault == <<"c", "a", "t", "a", "l", "o", "g", ":", "d", "e", "f", "a", "u", "l", "t">>

\* "catalog: prod "
RangeCatalogProdSpaced == <<"c", "a", "t", "a", "l", "o", "g", ":", " ", "p", "r", "o", "d", " ">>

\* " catalog:prod"
RangeSpaceCatalog == <<" ", "c", "a", "t", "a", "l", "o", "g", ":", "p", "r", "o", "d">>

\* The texts handed to parseCatalogReference and resolveVersion.
\* "catalog:\fprod": a form feed before the name
RangeCatalogFormFeed == <<"c", "a", "t", "a", "l", "o", "g", ":", "\f", "p", "r", "o", "d">>

\* "catalog:\u00A0": nothing but a no-break space after the marker
RangeCatalogNoBreak == <<"c", "a", "t", "a", "l", "o", "g", ":", " ">>

\* "catalog:constructor"
RangeCatalogCtor == <<"c", "a", "t", "a", "l", "o", "g", ":", "c", "o", "n", "s", "t", "r", "u", "c", "t", "o", "r">>

\* "caller"
Caller == <<"c", "a", "l", "l", "e", "r">>

References ==
  {RangeCatalog, RangeCatalogBlank, RangeCatalogDefault, RangeCatalogProd,
   RangeCatalogProdSpaced, RangeCatalogDev, RangeSpaceCatalog, RangeCaret3,
   RangeCatalogFormFeed, RangeCatalogNoBreak}

PackageNames == {Zod, StdA, Ctor, NameKey, Caller, GroupBy, HasOwn}

CatalogNames == {DefaultCatalog, Prod, Dev, Ctor}

\* detect() found no package manager: result?.name ?? null is null.
NoPackageManager == "null"

\* Workspace roots: the detected package manager, and a pnpm-workspace.yaml
\* that is absent, unparsable, or has any of the keys catalog (zod) and
\* catalogs (prod, with @s/a only).
ResolverWorkspaces ==
  {[packageManager |-> pm, yamlExists |-> y.exists, yamlParses |-> y.parses,
    members |-> y.members, catalog |-> (Zod :> RangeCaret3),
    catalogs |-> (Prod :> (StdA :> RangeJsr))] :
     pm \in {"pnpm", "npm", NoPackageManager},
     y \in {[exists |-> FALSE, parses |-> FALSE, members |-> {}],
            [exists |-> TRUE, parses |-> FALSE, members |-> {}]}
           \cup {[exists |-> TRUE, parses |-> TRUE, members |-> m] :
                   m \in SUBSET {"catalog", "catalogs"}}}

\* An absolute, normalised path of n directory names below the root; the
\* root is the empty path, and path.resolve leaves such a path as it is.
Path(n) == [j \in 1..n |-> "d"]

Root == <<>>

\* path.dirname: the parent directory, the root being its own parent.
Dirname(p) == IF p = Root THEN Root ELSE SubSeq(p, 1, Len(p) - 1)

\* The while loop of findWorkspaceRoot from currentPath on; dirs holds the
\* lengths of the paths where fs.existsSync finds pnpm-workspace.yaml.
RECURSIVE FindFrom(_, _)
FindFrom(currentPath, dirs) ==
  IF currentPath = Root THEN NullString
  ELSE IF Len(currentPath) \in dirs THEN Some(currentPath)
  ELSE FindFrom(Dirname(currentPath), dirs)

findWorkspaceRoot(startPath, dirs) == FindFrom(startPath, dirs)

InitResolver ==
  /\ workspace \in ResolverWorkspaces
  /\ tree \in SUBSET (0..MaxDepth)
  /\ call = NoCall
  /\ answer = NullString
  /\ consulted = {}
  /\ pending = [t \in Tasks |-> Idle]
  /\ seen = NotSeen
  /\ objectStatics \in Runtimes
  /\ pkgExists = FALSE
  /\ denoExists = FALSE
  /\ pkgFile = [sections |-> {}, devDependencies |-> <<>>,
                dependencies |-> <<>>]
  /\ denoFile = <<>>
  /\ versionPrecision = "auto"
  /\ pc = "idle"
  /\ deno = <<>>
  /\ idx = 0
  /\ updates = <<>>
  /\ hasUpdates = FALSE
  /\ runs = 0
  /\ writes = 0
  /\ startFile = <<>>
  /\ error = ""
  /\ silent = FALSE
  /\ log = <<>>

ParseCatalogReference ==
  /\ \E reference \in References :
       /\ call' = [fn |-> "parseCatalogReference", text |-> reference,
                   packageName |-> <<>>, catalogName |-> <<>>]
       /\ answer' = parseCatalogReference(reference)
  /\ consulted' = {}
  /\ seen' = NotSeen
  /\ UNCHANGED <<workspace, tree, pending, objectStatics>>
  /\ UNCHANGED syncVars

ResolvePnpmCatalog ==
  /\ \E packageName \in PackageNames, catalogName \in CatalogNames :
       /\ call' = [fn |-> "resolvePnpmCatalog", text |-> <<>>,
                   packageName |-> packageName, catalogName |-> catalogName]
       /\ answer' = resolvePnpmCatalog(packageName, catalogName, workspace)
  /\ consulted' = {"yaml"}
  /\ seen' = NotSeen
  /\ UNCHANGED <<workspace, tree, pending, objectStatics>>
  /\ UNCHANGED syncVars

FindWorkspaceRoot ==
  /\ \E n \in 0..MaxDepth :
       /\ call' = [fn |-> "findWorkspaceRoot", text |-> Path(n),
                   packageName |-> <<>>, catalogName |-> <<>>]
       /\ answer' = findWorkspaceRoot(Path(n), tree)
       /\ consulted' = IF Path(n) = Root THEN {} ELSE {"fs"}
  /\ seen' = NotSeen
  /\ UNCHANGED <<workspace, tree, pending, objectStatics>>
  /\ UNCHANGED syncVars

NextResolver ==
  ParseCatalogReference \/ ResolvePnpmCatalog \/ FindWorkspaceRoot

SpecResolver == InitResolver /\ [][NextResolver]_vars

-----------------------------------------------------------------------------
(* catalog-resolver: resolveVersion, which waits for the detection *)

\* The calls of resolveVersion: version and packageName.
ResolveVersionCalls ==
  {[version |-> RangeCatalog, packageName |-> Zod],
   [version |-> RangeCatalogProdSpaced, packageName |-> StdA],
   [version |-> RangeCatalogCtor, packageName |-> HasOwn],
   [version |-> RangeCaret3, packageName |-> Zod]}

\* The workspaces another process can turn the directory into while a call
\* waits: any package manager, pnpm-workspace.yaml absent or with both
\* catalogs.
ChangingWorkspaces ==
  {ws \in ResolverWorkspaces :
     ~ws.yamlExists \/ ws.members = {"catalog", "catalogs"}}

\* The runtimes on both sides of the release that brought Object.hasOwn,
\* the one name among the calls drawn here whose lookup depends on the
\* runtime.
HasOwnRuntimes ==
  {r \in Runtimes : GroupBy \notin r /\ LaterObjectStatics[4] \subseteq r}

InitResolveVersion ==
  /\ InitResolver
  /\ workspace \in ChangingWorkspaces
  /\ tree = {}
  /\ objectStatics \in HasOwnRuntimes

\* resolveVersion is called: it parses the text and, for a catalog
\* reference, starts the detection and waits for it; for any other text its
\* promise is settled with the text.
ResolveVersionCall ==
  /\ \E t \in Tasks, c \in ResolveVersionCalls :
       /\ pending[t].stage = "idle"
       /\ pending' =
            [pending EXCEPT ![t] =
               [stage |-> IF parseCatalogReference(c.version).isNull
                          THEN "settled" ELSE "detecting",
                version |-> c.version, packageName |-> c.packageName,
                manager |-> "", reads |-> {}]]
  /\ UNCHANGED <<call, answer, consulted, seen, workspace, tree,
                 objectStatics>>
  /\ UNCHANGED syncVars

\* detectPackageManager answers with the package manager of the workspace
\* as it is now.
ResolveVersionDetect ==
  /\ \E t \in Tasks :
       /\ pending[t].stage = "detecting"
       /\ pending' =
            [pending EXCEPT ![t].stage = "detected",
                            ![t].manager = detectPackageManager(workspace),
                            ![t].reads = {"detect"}]
  /\ UNCHANGED <<call, answer, consulted, seen, workspace, tree,
                 objectStatics>>
  /\ UNCHANGED syncVars

\* The call of resolvePnpmCatalog that resolveVersion makes once it goes on:
\* none for a text that is no reference or after a detection of anything but
\* pnpm.
CatalogCall(stage, packageManager, packageName, catalogName, ws) ==
  IF stage = "detected" /\ packageManager = "pnpm"
  THEN [made |-> TRUE, packageName |-> packageName,
        catalogName |-> catalogName,
        result |-> resolvePnpmCatalog(packageName, catalogName, ws)]
  ELSE NoLookup

\* The call goes on after the await and returns: the text itself, null
\* after a detection of anything but pnpm, else what resolvePnpmCatalog reads
\* from the workspace as it is now.
ResolveVersionReturn ==
  /\ \E t \in Tasks :
       /\ pending[t].stage \in {"settled", "detected"}
       /\ call' = [fn |-> "resolveVersion", text |-> pending[t].version,
                   packageName |-> pending[t].packageName,
                   catalogName |-> <<>>]
       /\ answer' =
            IF pending[t].stage = "settled" THEN Some(pending[t].version)
            ELSE AfterDetection(pending[t].manager, pending[t].packageName,
                                parseCatalogReference(pending[t].version).value,
                                workspace)
       /\ consulted' =
            IF pending[t].stage = "detected" /\ pending[t].manager = "pnpm"
            THEN pending[t].reads \cup {"yaml"} ELSE pending[t].reads
       /\ seen' =
            [manager |-> pending[t].manager,
             workspace |-> IF "yaml" \in consulted' THEN workspace
                           ELSE NoWorkspace,
             lookup |->
               CatalogCall(pending[t].stage, pending[t].manager,
                           pending[t].packageName,
                           parseCatalogReference(pending[t].version).value,
                           workspace)]
       /\ pending' = [pending EXCEPT ![t] = Idle]
  /\ UNCHANGED <<workspace, tree, objectStatics>>
  /\ UNCHANGED syncVars

\* Another process changes the lock files or pnpm-workspace.yaml.
ChangeWorkspace ==
  /\ workspace' \in ChangingWorkspaces \ {workspace}
  /\ UNCHANGED <<call, answer, consulted, seen, pending, tree,
                 objectStatics>>
  /\ UNCHANGED syncVars

NextResolveVersion ==
  \/ ResolveVersionCall
  \/ ResolveVersionDetect
  \/ ResolveVersionReturn
  \/ ChangeWorkspace
  \/ ParseCatalogReference

SpecResolveVersion == InitResolveVersion /\ [][NextResolveVersion]_vars

-----------------------------------------------------------------------------
(* C22 *)

\* t is s without its leading and trailing whitespace.
IsTrimOf(t, s) ==
  \E i \in 1..(Len(s) + 1) :
    \E j \in (i - 1)..Len(s) :
      /\ t = SubSeq(s, i, j)
      /\ \A h \in 1..(i - 1) : s[h] \in WhiteSpace
      /\ \A h \in (j + 1)..Len(s) : s[h] \in WhiteSpace
      /\ t = <<>> \/ (s[i] \notin WhiteSpace /\ s[j] \notin WhiteSpace)

\* C22: parseCatalogReference returns null for a text that does not start
\* with "catalog:"; for one that does, it returns as catalog name the text
\* after the marker without its surrounding whitespace, and "default" when
\* nothing is left: "catalog:", "catalog:  " and "catalog:default" all give
\* "default".
C22_ParseCatalogReference ==
  call.fn = "parseCatalogReference" =>
    LET rest == SubSeq(call.text, Len(CatalogMarker) + 1, Len(call.text))
    IN  /\ ~StartsWith(call.text, CatalogMarker) => answer = NullString
        /\ StartsWith(call.text, CatalogMarker) =>
             /\ ~answer.isNull /\ answer.isString
             /\ IF IsTrimOf(<<>>, rest) THEN answer.value = DefaultCatalog
                ELSE IsTrimOf(answer.value, rest)
        /\ call.text \in {RangeCatalog, RangeCatalogBlank, RangeCatalogDefault}
             => answer.value = DefaultCatalog

C22_Witness ==
  /\ call.fn = "parseCatalogReference"
  /\ call.text = RangeCatalogProdSpaced
  /\ answer.value = Prod

-----------------------------------------------------------------------------
(* C23 *)

\* The catalog a catalog name selects: the mapping "catalog" for "default",
\* catalogs[<name>] otherwise; absent when the document lacks it.
SelectedCatalog(ws, catalogName) ==
  IF catalogName = DefaultCatalog
  THEN [present |-> "catalog" \in ws.members, map |-> ws.catalog]
  ELSE IF "catalogs" \in ws.members /\ catalogName \in DOMAIN ws.catalogs
  THEN [present |-> TRUE, map |-> ws.catalogs[catalogName]]
  ELSE [present |-> FALSE, map |-> <<>>]

\* The catalog name a reference holds: the text after the marker without
\* its surrounding whitespace, "default" when nothing is left.
IsCatalogNameOf(name, reference) ==
  LET rest == SubSeq(reference, Len(CatalogMarker) + 1, Len(reference))
  IN  IF IsTrimOf(<<>>, rest) THEN name = DefaultCatalog
      ELSE IsTrimOf(name, rest)

\* C23: resolveVersion returns a text that is not a catalog reference as it
\* is, having consulted neither the package manager nor the workspace
\* document; for a catalog reference it returns null when the package
\* manager it detected is not pnpm or none was detected, whatever the
\* workspace document holds, without reading it and without calling
\* resolvePnpmCatalog; after detecting pnpm it calls resolvePnpmCatalog with
\* its package name and the catalog name of the reference and returns the
\* result of that call as it is: for a package and a catalog that are no
\* inherited names, the range the selected catalog of the document it read
\* gives the package, and null when there is none.
C23_ResolveVersion ==
  call.fn = "resolveVersion" =>
    LET selected == SelectedCatalog(seen.workspace, seen.lookup.catalogName)
    IN  /\ ~StartsWith(call.text, CatalogMarker) =>
             /\ answer = Some(call.text)
             /\ consulted = {}
             /\ ~seen.lookup.made
        /\ StartsWith(call.text, CatalogMarker) /\ seen.manager # "pnpm" =>
             /\ answer = NullString
             /\ "yaml" \notin consulted
             /\ seen.workspace = NoWorkspace
             /\ ~seen.lookup.made
        /\ StartsWith(call.text, CatalogMarker) /\ seen.manager = "pnpm" =>
             /\ seen.lookup.made
             /\ seen.lookup.packageName = call.packageName
             /\ IsCatalogNameOf(seen.lookup.catalogName, call.text)
             /\ answer = seen.lookup.result
             /\ (/\ call.packageName \notin ObjectPrototypeKeys
                 /\ seen.lookup.catalogName \notin ObjectPrototypeKeys) =>
                  IF /\ seen.workspace.yamlExists /\ seen.workspace.yamlParses
                     /\ selected.present
                     /\ call.packageName \in DOMAIN selected.map
                  THEN answer = Some(selected.map[call.packageName])
                  ELSE answer = NullString

\* A catalog reference whose entry the workspace document holds, resolved
\* after npm was detected: null.
C23_Witness ==
  /\ call.fn = "resolveVersion"
  /\ call.text = RangeCatalog
  /\ call.packageName = Zod
  /\ seen.manager = "npm"
  /\ workspace.yamlExists /\ workspace.yamlParses
  /\ "catalog" \in workspace.members
  /\ Zod \in DOMAIN workspace.catalog
  /\ answer = NullString

\* A reference resolved to the entry of the document after pnpm was
\* detected, while another call was waiting for its detection.
C23_WitnessPnpm ==
  /\ call.fn = "resolveVersion"
  /\ call.text = RangeCatalogProdSpaced
  /\ call.packageName = StdA
  /\ seen.manager = "pnpm"
  /\ seen.lookup.catalogName = Prod
  /\ answer = Some(RangeJsr)
  /\ \E t \in Tasks : pending[t].stage = "detecting"

-----------------------------------------------------------------------------
(* C24 *)

\* C24: resolvePnpmCatalog returns the range the selected catalog gives the
\* package, and null when the workspace document is missing or unparsable,
\* lacks the selected catalog, or the selected catalog has no entry for the
\* package; an entry in another catalog is not found.
C24_RangeOrNull ==
  call.fn = "resolvePnpmCatalog" =>
    LET selected == SelectedCatalog(workspace, call.catalogName)
    IN  IF /\ workspace.yamlExists /\ workspace.yamlParses
           /\ selected.present
           /\ call.packageName \in DOMAIN selected.map
        THEN answer = Some(selected.map[call.packageName])
        ELSE answer = NullString

-----------------------------------------------------------------------------
(* C25 *)

\* The directories from startPath up to the filesystem root that hold the
\* workspace document, as path lengths.
ChainMatches(startPath) == {n \in 0..Len(startPath) : n \in tree}

\* C25: findWorkspaceRoot returns the nearest directory on the chain
\* startPath, parent, ..., filesystem root that contains the workspace
\* document, and null only when no directory of the chain, the filesystem
\* root included, contains it.
C25_NearestOnChain ==
  call.fn = "findWorkspaceRoot" =>
    LET found == ChainMatches(call.text)
    IN  IF found = {} THEN answer = NullString
        ELSE answer = Some(SubSeq(call.text, 1,
                                  CHOOSE n \in found : \A h \in found : h <= n))

-----------------------------------------------------------------------------
(* C26 *)

\* C26: every entry the call rewrites is still a specifier of its dialect:
\* the new value matches the pattern the old one matched, decomposes into the
\* same package name and the same subpath, and embeds a version of
\* dot-separated integers that is the newVersion of the change recorded for
\* it; no empty or non-numeric version is written.
C26_RewrittenStillRecognized ==
  \A k \in 1..Len(StartEntries) :
    Rewritten(k) =>
      LET old == DialectMatch(StartEntries[k])
          new == DialectMatch(deno[k])
      IN  /\ new.matched
          /\ new.registry = old.registry
          /\ new.name = old.name
          /\ new.subpath = old.subpath
          /\ IsNumericVersion(new.version)
          /\ Recorded(old.name, old.version, new.version)

-----------------------------------------------------------------------------
(* C27 *)

\* C27: in every result the call returns, hasUpdates is true exactly when
\* updates is not empty, every record of updates has an oldVersion that
\* differs from its newVersion, and deno.json was written during the call
\* exactly when hasUpdates is true.
C27_ResultConsistent ==
  Returned =>
    /\ hasUpdates <=> Len(updates) > 0
    /\ \A j \in 1..Len(updates) : updates[j].oldVersion # updates[j].newVersion
    /\ hasUpdates <=> writes >= 1
    /\ writes <= 1

\* A returned result with one change, of a call that left alone an entry
\* whose candidate differs from the embedded version only beyond the
\* precision applied.
C27_Witness ==
  /\ Returned
  /\ hasUpdates
  /\ Len(updates) = 1
  /\ writes = 1
  /\ \E k \in 1..Len(StartEntries) :
       LET m == DialectMatch(StartEntries[k])
           d == Declaration(m.name)
       IN  /\ m.matched /\ d.declared
           /\ StripLeadingNonDigits(d.range) # m.version
           /\ ~Rewritten(k)

====
